---------------------------- MODULE Spec2Model ----------------------------
(***************************************************************************)
(* StenoWAV (src/POC.py): embedding of a text payload into the spectrum of *)
(* a stereo signal.  The module models                                     *)
(*   - compress            (the float synthesizer),                        *)
(*   - process_fft         (bin selection, apply_randomness, apply_data),  *)
(*   - overlap_add_process (the framing loop and its accumulators),        *)
(*   - main                (the two channels over the module-wide random   *)
(*                          generator `rd`).                               *)
(* Python integers are unbounded; TLC's are 32 bits wide, so a 32-bit      *)
(* pattern is kept as its top bit and its low 31 bits.  The K-factor, a    *)
(* float in the program, is a rational num/den whose denominator is a      *)
(* power of two, so that every product and quotient the program forms with *)
(* it is exact in binary floating point as well.                           *)
(***************************************************************************)
EXTENDS Integers, Sequences, FiniteSets, TLC

VARIABLES
    \* compress
    string, floats, cpc,
    \* process_fft
    payload, fft_data, k_factor, data_compress, positions, index, log, pc,
    \* overlap_add_process
    audio_len, fft_size, hop_size, output, norm, start, starts, result, opc,
    \* main and the random module
    sample_rate, seed, rng, chan

vars == <<string, floats, cpc,
          payload, fft_data, k_factor, data_compress, positions, index, log, pc,
          audio_len, fft_size, hop_size, output, norm, start, starts, result, opc,
          sample_rate, seed, rng, chan>>

compressVars == <<string, floats, cpc>>
fftVars == <<payload, fft_data, k_factor, data_compress, positions, index, log, pc>>
olaVars == <<audio_len, fft_size, hop_size, output, norm, start, starts, result, opc>>
mainVars == <<sample_rate, seed, rng, chan>>

---------------------------------------------------------------------------
(* Bounds of the model. *)

\* longest string handed to compress
MaxLen == 3
\* longest payload prefix embedded by process_fft
MaxPayload == 4
\* longest spectral frame handed to process_fft
MaxBins == 5
\* longest channel handed to overlap_add_process
MaxAudio == 6
\* largest frame size and hop size handed to overlap_add_process
MaxFft == 4
MaxHop == 2

---------------------------------------------------------------------------
(* Integer helpers. *)

Min(a, b) == IF a < b THEN a ELSE b

RECURSIVE Shl(_, _)
\* x << n
Shl(x, n) == IF n = 0 THEN x ELSE Shl(2 * x, n - 1)

RECURSIVE BitOr(_, _)
\* a | b on non-negative integers
BitOr(a, b) ==
    IF a = 0 THEN b
    ELSE IF b = 0 THEN a
    ELSE (IF a % 2 = 1 \/ b % 2 = 1 THEN 1 ELSE 0) + 2 * BitOr(a \div 2, b \div 2)

\* 2^23 and 2^16, the widths of the mantissa and of the payload bits
TwoTo23 == Shl(1, 23)
TwoTo16 == Shl(1, 16)

InList(x, s) == \E j \in 1..Len(s) : s[j] = x

Range(s) == {s[j] : j \in 1..Len(s)}

---------------------------------------------------------------------------
(* compress: src/POC.py 76-102 *)

EXP_MIN == 80
EXP_MAX == 125
RND7_MAX == 127

\* the character codes the model draws strings from: NUL, 'H', 'i', 0xFF
ByteChoices == {0, 72, 105, 255}

\* rd.randint(80, 125), cut to the ends of the range
ExpChoicesWide == {EXP_MIN, EXP_MAX + 1}
ExpChoices == {EXP_MIN, EXP_MAX}

\* rd.randint(0, 0x7F), cut to the ends of the range and 0b1010101
Rnd7Choices == {0, 85, RND7_MAX}

\* string[i:i+2].ljust(2, '\x00'), i counted from 0
LjustLeft(s, i) ==
    IF i + 2 <= Len(s) THEN <<s[i + 1], s[i + 2]>> ELSE <<0, s[i + 1]>>
Ljust(s, i) ==
    IF i + 2 <= Len(s) THEN <<s[i + 1], s[i + 2]>> ELSE <<s[i + 1], 0>>

\* (ord(chars[0]) << 8) | ord(chars[1])
Char16Swapped(chars) == BitOr(Shl(chars[2], 8), chars[1])
Char16(chars) == BitOr(Shl(chars[1], 8), chars[2])

\* (random_7bits << 16) | char_16bits
Mantissa(random_7bits, char_16bits) == BitOr(Shl(random_7bits, 16), char_16bits)

\* (sign << 31) | (exponent << 23) | mantissa, as [top bit, low 31 bits]
FloatBits(sign, exponent, mantissa) ==
    [hi |-> sign, lo |-> BitOr(Shl(exponent, 23), mantissa)]

\* struct.unpack('f', struct.pack('I', float_bits))[0]: the value
\* (-1)^sign * sig * 2^(exp2 - 23) of a binary32 pattern
UnpackF(bits) ==
    LET e == bits.lo \div TwoTo23
        m == bits.lo % TwoTo23
    IN  IF e = 255 THEN [cls |-> IF m = 0 THEN "inf" ELSE "nan",
                         sign |-> bits.hi, exp2 |-> 128, sig |-> m]
        ELSE IF e = 0 THEN [cls |-> "subnormal",
                            sign |-> bits.hi, exp2 |-> -126, sig |-> m]
        ELSE [cls |-> "normal",
              sign |-> bits.hi, exp2 |-> e - 127, sig |-> TwoTo23 + m]

\* one pass of the loop body, lines 87-100
CompressChunk(chars, exponent, random_7bits) ==
    UnpackF(FloatBits(0, exponent, Mantissa(random_7bits, Char16(chars))))

RECURSIVE CompressFrom(_, _, _, _)
\* for i in range(0, len(string), 2), draws[j] the two draws of pass j
CompressFrom(s, i, draws, acc) ==
    IF i >= Len(s) THEN acc
    ELSE CompressFrom(s, i + 2, draws,
            Append(acc, CompressChunk(Ljust(s, i),
                                      draws[(i \div 2) + 1].exponent,
                                      draws[(i \div 2) + 1].random_7bits)))

compress(s, draws) == CompressFrom(s, 0, draws, <<>>)

\* number of passes of the loop of compress
NumChunks(s) == (Len(s) + 1) \div 2

\* the draws of one call of compress on s
CompressDraws(s) ==
    [1..NumChunks(s) -> [exponent : ExpChoices, random_7bits : Rnd7Choices]]

Strings(n) == UNION {[1..m -> ByteChoices] : m \in 0..n}

---------------------------------------------------------------------------
(* The K-factor and numpy indexing. *)

\* the K-factors the model draws: 1/2, 1, 3/2, 2, 3
KChoices == {[num |-> 1, den |-> 2], [num |-> 1, den |-> 1], [num |-> 3, den |-> 2],
             [num |-> 2, den |-> 1], [num |-> 3, den |-> 1]}

\* int(n // k_factor)
FloorDiv(n, k) == (n * k.den) \div k.num

\* int(x * k_factor), x >= 0
IntMul(x, k) == (x * k.num) \div k.den

\* an index numpy accepts on an array of length n: a negative one counts from the end
ValidIndex(at, n) == -n <= at /\ at < n

\* the bin (counted from 0) an accepted index names
Resolve(at, n) == IF at < 0 THEN at + n ELSE at

\* fft_data[at] += value, each bin kept as the list of what was added to it
AddAt(fft, at, addend) ==
    [fft EXCEPT ![Resolve(at, Len(fft)) + 1] = Append(@, addend)]

\* a spectral frame of n bins nothing was added to yet
Frame(n) == [b \in 1..n |-> <<>>]

---------------------------------------------------------------------------
(* apply_randomness: src/POC.py 12-17 *)

RECURSIVE ApplyRandomnessFrom(_, _, _, _, _)
ApplyRandomnessFrom(fft, k, pre_places_positions, i, lg) ==
    IF i >= FloorDiv(Len(fft), k)
    THEN [fft_data |-> fft, log |-> lg, raised |-> FALSE]
    ELSE IF InList(i, pre_places_positions)
    THEN ApplyRandomnessFrom(fft, k, pre_places_positions, i + 1, lg)
    ELSE LET at == IntMul(i, k) - 1
         IN  IF ~ValidIndex(at, Len(fft))
             THEN [fft_data |-> fft, raised |-> TRUE,
                   log |-> Append(lg, [phase |-> "randomness", index |-> i,
                                       at |-> at, ok |-> FALSE])]
             ELSE ApplyRandomnessFrom(
                    AddAt(fft, at, [phase |-> "randomness", index |-> i]),
                    k, pre_places_positions, i + 1,
                    Append(lg, [phase |-> "randomness", index |-> i,
                                at |-> at, ok |-> TRUE]))

apply_randomness(fft, k, pre_places_positions) ==
    ApplyRandomnessFrom(fft, k, pre_places_positions, 0, <<>>)

---------------------------------------------------------------------------
(* apply_data: src/POC.py 20-24 *)

RECURSIVE ApplyDataFrom(_, _, _, _, _, _)
ApplyDataFrom(fft, k, fl, pos, i, lg) ==
    IF i >= Len(pos)
    THEN [fft_data |-> fft, log |-> lg, raised |-> FALSE]
    ELSE IF ~(i < Len(fl))
    THEN ApplyDataFrom(fft, k, fl, pos, i + 1, lg)
    ELSE LET at == IntMul(pos[i + 1], k)
         IN  IF ~ValidIndex(at, Len(fft))
             THEN [fft_data |-> fft, raised |-> TRUE,
                   log |-> Append(lg, [phase |-> "data", index |-> i,
                                       at |-> at, ok |-> FALSE])]
             ELSE ApplyDataFrom(
                    AddAt(fft, at, [phase |-> "data", index |-> i, value |-> fl[i + 1]]),
                    k, fl, pos, i + 1,
                    Append(lg, [phase |-> "data", index |-> i,
                                at |-> at, ok |-> TRUE]))

apply_data(fft, k, fl, pos) == ApplyDataFrom(fft, k, fl, pos, 0, <<>>)

---------------------------------------------------------------------------
(* process_fft: src/POC.py 27-37 *)

\* "Hello World!"
PAYLOAD == <<72, 101, 108, 108, 111, 32, 87, 111, 114, 108, 100, 33>>

\* the prefixes of the payload the model embeds
Payloads == {SubSeq(PAYLOAD, 1, n) : n \in 0..Min(MaxPayload, Len(PAYLOAD))}

\* the upper end of rd.randint(0, int(len(fft_data) // k_factor))
Usable(fft, k) == FloorDiv(Len(fft), k)

\* one pass of the selection loop, lines 32-34
SelectStep(pos, prob_position) ==
    IF ~InList(prob_position, pos) THEN Append(pos, prob_position) ELSE pos

RECURSIVE SelectFrom(_, _, _)
\* for index in range(0, len(data_compress)), draws[j] the draw of pass j
SelectFrom(pos, draws, i) ==
    IF i >= Len(draws) THEN pos
    ELSE SelectFrom(SelectStep(pos, draws[i + 1]), draws, i + 1)

\* the draws of the selection loop of one call
SelectDraws(n, u) == [1..n -> 0..u]

\* lines 35-37 on the positions selected: the frame, what was written, and
\* whether an IndexError left the call
Embed(fft, k, fl, pos) ==
    LET r == apply_randomness(fft, k, pos)
    IN  IF r.raised THEN r
        ELSE LET d == apply_data(r.fft_data, k, fl, pos)
             IN  [fft_data |-> d.fft_data, log |-> r.log \o d.log, raised |-> d.raised]

\* lines 30-37, given what compress returned on line 29 and the draws of
\* the selection loop
process_fft(fft, k, fl, pdraws) ==
    Embed(fft, k, fl, SelectFrom(<<>>, pdraws, 0))

---------------------------------------------------------------------------
(* What each specification leaves untouched. *)

IdleCompress == string = <<>> /\ floats = <<>> /\ cpc = "idle"

IdleFft ==
    /\ payload = <<>> /\ fft_data = <<>> /\ k_factor = [num |-> 1, den |-> 1]
    /\ data_compress = <<>> /\ positions = <<>> /\ index = 0 /\ log = <<>>
    /\ pc = "idle"

IdleOla ==
    /\ audio_len = 0 /\ fft_size = 0 /\ hop_size = 0
    /\ output = <<>> /\ norm = <<>> /\ start = 0 /\ starts = <<>>
    /\ result = <<>> /\ opc = "idle"

IdleMain == sample_rate = 0 /\ seed = 0 /\ rng = 0 /\ chan = <<>>

---------------------------------------------------------------------------
(* compress called on a string: SpecCompress *)

InitCompress ==
    /\ string \in Strings(MaxLen)
    /\ floats = <<>>
    /\ cpc = "call"
    /\ IdleFft /\ IdleOla /\ IdleMain

Compress ==
    /\ cpc = "call"
    /\ \E draws \in CompressDraws(string) : floats' = compress(string, draws)
    /\ cpc' = "return"
    /\ UNCHANGED <<string, fftVars, olaVars, mainVars>>

NextCompress == Compress

SpecCompress == InitCompress /\ [][NextCompress]_vars

---------------------------------------------------------------------------
(* process_fft called on a spectral frame: SpecFft *)

InitFft ==
    /\ payload \in Payloads
    /\ \E n \in 1..MaxBins : fft_data = Frame(n)
    /\ k_factor \in KChoices
    /\ data_compress = <<>> /\ positions = <<>> /\ index = 0 /\ log = <<>>
    /\ pc = "compress"
    /\ IdleCompress /\ IdleOla /\ IdleMain

\* line 29-30
FftCompress ==
    /\ pc = "compress"
    /\ \E draws \in CompressDraws(payload) : data_compress' = compress(payload, draws)
    /\ positions' = <<>>
    /\ index' = 0
    /\ pc' = "select"
    /\ UNCHANGED <<payload, fft_data, k_factor, log, compressVars, olaVars, mainVars>>

\* lines 31-34, one pass
FftSelect ==
    /\ pc = "select"
    /\ index < Len(data_compress)
    /\ \E prob_position \in 0..Usable(fft_data, k_factor) :
          positions' = SelectStep(positions, prob_position)
    /\ index' = index + 1
    /\ UNCHANGED <<payload, fft_data, k_factor, data_compress, log, pc,
                   compressVars, olaVars, mainVars>>

\* line 35, after the last pass
FftApplyRandomness ==
    /\ pc = "select"
    /\ index >= Len(data_compress)
    /\ \E r \in {apply_randomness(fft_data, k_factor, positions)} :
           /\ fft_data' = r.fft_data
           /\ log' = log \o r.log
           /\ pc' = IF r.raised THEN "IndexError" ELSE "data"
    /\ UNCHANGED <<payload, k_factor, data_compress, positions, index,
                   compressVars, olaVars, mainVars>>

\* lines 36-37
FftApplyData ==
    /\ pc = "data"
    /\ \E d \in {apply_data(fft_data, k_factor, data_compress, positions)} :
           /\ fft_data' = d.fft_data
           /\ log' = log \o d.log
           /\ pc' = IF d.raised THEN "IndexError" ELSE "return"
    /\ UNCHANGED <<payload, k_factor, data_compress, positions, index,
                   compressVars, olaVars, mainVars>>

NextFft == FftCompress \/ FftSelect \/ FftApplyRandomness \/ FftApplyData

SpecFft == InitFft /\ [][NextFft]_vars

---------------------------------------------------------------------------
(* Reading a synthesized value back. *)

\* struct.pack('f', v) as [top bit, low 31 bits]
PackF(v) ==
    [hi |-> v.sign,
     lo |-> IF v.cls = "normal" THEN (v.exp2 + 127) * TwoTo23 + (v.sig - TwoTo23)
            ELSE IF v.cls = "subnormal" THEN v.sig
            ELSE 255 * TwoTo23 + v.sig]

\* the low 16 bits of the pattern as two bytes, bits 15..8 first
LowBytes(v) ==
    LET low16 == PackF(v).lo % TwoTo16
    IN  <<low16 \div 256, low16 % 256>>

RECURSIVE ReadBack(_)
ReadBack(fl) == IF fl = <<>> THEN <<>> ELSE LowBytes(Head(fl)) \o ReadBack(Tail(fl))

\* 2^e as a binary32 value
Pow2(e) == [cls |-> "normal", sign |-> 0, exp2 |-> e, sig |-> TwoTo23]

\* a < b on positive normal values
FloatLess(a, b) == a.exp2 < b.exp2 \/ (a.exp2 = b.exp2 /\ a.sig < b.sig)

---------------------------------------------------------------------------
(* Claims on compress (SpecCompress). *)

\* C1: compress(B) returns ceil(len(B)/2) values, and the low 16 bits of the
\* values' patterns, read as two bytes each, are B followed by one null byte
\* when len(B) is odd.
C1_RoundTrip ==
    cpc = "return" =>
        /\ Len(floats) = (Len(string) + 1) \div 2
        /\ ReadBack(floats) = string \o (IF Len(string) % 2 = 1 THEN <<0>> ELSE <<>>)

\* an odd-length string ending in 0xFF was compressed with the largest exponent
C1_Witness ==
    /\ cpc = "return"
    /\ string = <<72, 105, 255>>
    /\ Len(floats) = 2
    /\ floats[2].exp2 = EXP_MAX - 127
    /\ LowBytes(floats[2]) = <<255, 0>>

---------------------------------------------------------------------------
(* Claims on process_fft (SpecFft). *)

\* the raw indices one phase wrote at
WrittenAt(phase) == {log[j].at : j \in {n \in 1..Len(log) : log[n].phase = phase /\ log[n].ok}}

\* the bins one phase wrote to
BinsOf(phase) == {Resolve(at, Len(fft_data)) : at \in WrittenAt(phase)}

\* the selection loop is over
Selected == pc \in {"data", "return", "IndexError"}

\* C3: the position set holds exactly N distinct integers of [0, floor(L/K)],
\* N the number of synthesized floats, whenever floor(L/K) + 1 >= N.
C3_ExactlyN ==
    (Selected /\ Usable(fft_data, k_factor) + 1 >= Len(data_compress)) =>
        /\ Len(positions) = Len(data_compress)
        /\ Cardinality(Range(positions)) = Len(data_compress)
        /\ Range(positions) \subseteq 0..Usable(fft_data, k_factor)

\* C4: with more floats than floor(L/K) + 1, the selection does not return
\* normally with fewer positions than floats.
C4_ExplicitFailure ==
    (pc = "return" /\ Len(data_compress) > Usable(fft_data, k_factor) + 1) =>
        Len(positions) >= Len(data_compress)

\* C6: the indices written by the randomization phase and the indices written
\* by the data phase are disjoint.
C6_Disjoint == WrittenAt("randomness") \cap WrittenAt("data") = {}

\* C7: the number of distinct bins modified by the data phase is
\* min(|P|, |F|).
C7_DataBins ==
    pc = "return" =>
        Cardinality(BinsOf("data")) = Min(Len(positions), Len(data_compress))

\* C10: every index used by apply_randomness and apply_data lies in [0, L-1]:
\* none is negative, none raises an index error.
C10_InRange ==
    /\ pc # "IndexError"
    /\ \A j \in 1..Len(log) : 0 <= log[j].at /\ log[j].at <= Len(fft_data) - 1

---------------------------------------------------------------------------
(* overlap_add_process: src/POC.py 40-56 *)

\* len(np.fft.rfft(segment)) for a segment of n samples
RfftLen(n) == n \div 2 + 1

\* len(np.fft.irfft(fft_data)) for m bins
IrfftLen(m) == 2 * (m - 1)

\* np.zeros(len(audio) + fft_size): each sample kept as the list of the frame
\* starts accumulated into it
Zeros(n) == [j \in 1..n |-> <<>>]

\* the test of range(0, len(audio) - fft_size, hop_size)
InRangeInclusive(s, n, f) == s <= n - f
InRange(s, n, f) == s < n - f

\* buf[s:s+f] += the frame that starts at s
Accumulate(buf, s, f) ==
    [j \in 1..Len(buf) |-> IF s < j /\ j <= s + f THEN Append(buf[j], s) ELSE buf[j]]

\* output[:len(audio)]
TruncateNone(out, n) == out
Truncate(out, n) == SubSeq(out, 1, Min(n, Len(out)))

\* the payloads embedded while framing: "He" and "Hel"
OlaPayloads == {SubSeq(PAYLOAD, 1, 2), SubSeq(PAYLOAD, 1, 3)}

InitOla ==
    /\ audio_len \in 0..MaxAudio
    /\ fft_size \in 1..MaxFft
    /\ hop_size \in 1..MaxHop
    /\ k_factor \in KChoices
    /\ payload \in OlaPayloads
    /\ output = <<>> /\ norm = <<>> /\ start = 0 /\ starts = <<>> /\ result = <<>>
    /\ opc = "call"
    /\ fft_data = <<>> /\ data_compress = <<>> /\ positions = <<>>
    /\ index = 0 /\ log = <<>> /\ pc = "idle"
    /\ IdleCompress /\ IdleMain

\* lines 41-44
OlaAllocate ==
    /\ opc = "call"
    /\ output' = Zeros(audio_len + fft_size)
    /\ norm' = Zeros(audio_len + fft_size)
    /\ start' = 0
    /\ opc' = "loop"
    /\ UNCHANGED <<audio_len, fft_size, hop_size, starts, result,
                   compressVars, fftVars, mainVars>>

\* lines 50-52 on what process_fft handed back, for the loop state st: the
\* frame is transformed back and accumulated, unless process_fft raised or the
\* product with the window does
AfterFrame(st, r, f, h) ==
    IF r.raised THEN [st EXCEPT !.opc = "IndexError"]
    ELSE IF IrfftLen(Len(r.fft_data)) # f THEN [st EXCEPT !.opc = "ValueError"]
    ELSE [st EXCEPT !.output = Accumulate(st.output, st.start, f),
                    !.norm = Accumulate(st.norm, st.start, f),
                    !.starts = Append(st.starts, st.start),
                    !.start = st.start + h]

\* lines 46-52, one pass
OlaFrame ==
    /\ opc = "loop"
    /\ InRange(start, audio_len, fft_size)
    /\ \E cdraws \in CompressDraws(payload) :
       \E fl \in {compress(payload, cdraws)} :
       \E pdraws \in SelectDraws(Len(fl), Usable(Frame(RfftLen(fft_size)), k_factor)) :
       \E nxt \in {AfterFrame([output |-> output, norm |-> norm, start |-> start,
                                starts |-> starts, opc |-> opc],
                               process_fft(Frame(RfftLen(fft_size)), k_factor, fl, pdraws),
                               fft_size, hop_size)} :
              /\ output' = nxt.output
              /\ norm' = nxt.norm
              /\ start' = nxt.start
              /\ starts' = nxt.starts
              /\ opc' = nxt.opc
    /\ UNCHANGED <<audio_len, fft_size, hop_size, result,
                   compressVars, fftVars, mainVars>>

\* lines 53-56, after the last pass
OlaReturn ==
    /\ opc = "loop"
    /\ ~InRange(start, audio_len, fft_size)
    /\ result' = Truncate(output, audio_len)
    /\ opc' = "return"
    /\ UNCHANGED <<audio_len, fft_size, hop_size, output, norm, start, starts,
                   compressVars, fftVars, mainVars>>

NextOla == OlaAllocate \/ OlaFrame \/ OlaReturn

SpecOla == InitOla /\ [][NextOla]_vars

---------------------------------------------------------------------------
(* Claims on overlap_add_process (SpecOla). *)

\* C2: for a signal of length >= the frame size, the sequence returned has
\* exactly the length of the signal, however many frames were processed.
C2_OutputLength ==
    (opc = "return" /\ audio_len >= fft_size) => Len(result) = audio_len

\* a call that processed several frames has returned
C2_Witness ==
    /\ opc = "return"
    /\ audio_len >= fft_size
    /\ Len(starts) >= 3
    /\ Len(result) = audio_len

\* the offsets 0, H, 2H, ... below n - F, in increasing order
OffsetsBelow(n, f, h) ==
    LET cnt == IF n - f <= 0 THEN 0 ELSE (n - f + h - 1) \div h
    IN  [j \in 1..cnt |-> (j - 1) * h]

\* C9 as stated: the offsets processed are 0, H, 2H, ... below len - F in
\* increasing order, and every multiple s of H with s + F <= len, a complete
\* frame, is processed.
C9_CompleteFrames ==
    opc = "return" =>
        /\ starts = OffsetsBelow(audio_len, fft_size, hop_size)
        /\ \A s \in 0..audio_len :
              (s % hop_size = 0 /\ s + fft_size <= audio_len) => InList(s, starts)

\* C9 amended: the offsets processed are 0, H, 2H, ... below len - F in
\* increasing order; every multiple s of H with s + F < len is processed, and
\* the complete frame at s = len - F is not.
C9_Offsets ==
    opc = "return" =>
        /\ starts = OffsetsBelow(audio_len, fft_size, hop_size)
        /\ \A s \in 0..audio_len :
              (s % hop_size = 0 /\ s + fft_size < audio_len) => InList(s, starts)
        /\ audio_len >= fft_size => ~InList(audio_len - fft_size, starts)

\* a signal of two hops beyond one frame: the frames at 0 and H were processed,
\* the complete frame at 2H = len - F was not
C9_Witness ==
    /\ opc = "return"
    /\ hop_size = 2
    /\ audio_len = fft_size + 2 * hop_size
    /\ starts = <<0, hop_size>>

---------------------------------------------------------------------------
(* The random module: src/POC.py 4.  `rd` is one generator for the whole   *)
(* process; every rd.randint and rd.uniform reads its state and advances   *)
(* it.  The generator is kept as a full-period congruential one over       *)
(* RngMod states.                                                          *)

RngMod == 16

NextRng(s) == (5 * s + 3) % RngMod

RECURSIVE Stream(_, _)
\* the state j draws after s
Stream(s, j) == IF j = 0 THEN s ELSE Stream(NextRng(s), j - 1)

\* rd.randint(lo, hi) drawn in state s
RandInt(s, lo, hi) == lo + (s % (hi - lo + 1))

---------------------------------------------------------------------------
(* main: src/POC.py 59-66, the two channels: SpecMain.  Each channel is one *)
(* call of overlap_add_process; a step of a channel is one step of its call *)
(* and the two calls may be interleaved.                                    *)

\* the frame size main is run with, and HOP_SIZE = FFT_SIZE // 8
MainFftSize == 8
HopOf(f) == f \div 8

\* the sample rates main is run with
RateChoices == {4, 8}

\* a call of overlap_add_process before its first line
NewCall ==
    [opc |-> "call", output |-> <<>>, norm |-> <<>>, start |-> 0, starts |-> <<>>,
     result |-> <<>>, drawn |-> <<>>]

Ended(c) == c.opc \in {"return", "IndexError", "ValueError"}

\* one step of a call c with the generator in state r: the call and the generator after it
ChanStep(c, r) ==
    IF c.opc = "call"
    THEN [chan |-> [c EXCEPT !.output = Zeros(audio_len + fft_size),
                             !.norm = Zeros(audio_len + fft_size),
                             !.start = 0, !.opc = "loop"],
          rng |-> r]
    ELSE IF c.opc = "loop" /\ InRange(c.start, audio_len, fft_size)
    THEN LET n == NumChunks(payload)
             fft == Frame(RfftLen(fft_size))
             cdraws == [j \in 1..n |->
                          [exponent |-> RandInt(Stream(r, 2 * j - 2), EXP_MIN, EXP_MAX),
                           random_7bits |-> RandInt(Stream(r, 2 * j - 1), 0, RND7_MAX)]]
             pdraws == [j \in 1..n |->
                          RandInt(Stream(r, 2 * n + j - 1), 0, Usable(fft, k_factor))]
             res == process_fft(fft, k_factor, compress(payload, cdraws), pdraws)
             \* one rd.uniform(-5, 5) for each bin apply_randomness wrote
             jitter == Cardinality({j \in 1..Len(res.log) : res.log[j].phase = "randomness"})
             total == 3 * n + jitter
             nxt == AfterFrame(c, res, fft_size, hop_size)
         IN  [chan |-> [nxt EXCEPT !.drawn = c.drawn \o [j \in 1..total |-> Stream(r, j - 1)]],
              rng |-> Stream(r, total)]
    ELSE IF c.opc = "loop"
    THEN [chan |-> [c EXCEPT !.result = Truncate(c.output, audio_len), !.opc = "return"],
          rng |-> r]
    ELSE [chan |-> c, rng |-> r]

RECURSIVE RunToEnd(_, _)
\* a call run from c to its end with nothing else drawing from the generator
RunToEnd(c, r) ==
    IF Ended(c) THEN [chan |-> c, rng |-> r]
    ELSE RunToEnd(ChanStep(c, r).chan, ChanStep(c, r).rng)

InitMain ==
    /\ audio_len \in (MainFftSize + 1)..(MainFftSize + 2)
    /\ sample_rate \in RateChoices
    /\ fft_size = MainFftSize
    /\ hop_size = HopOf(MainFftSize)
    /\ k_factor = [num |-> audio_len, den |-> sample_rate]
    /\ payload = PAYLOAD
    /\ seed \in 0..(RngMod - 1)
    /\ rng = seed
    /\ chan = [c \in {"left", "right"} |-> NewCall]
    /\ output = <<>> /\ norm = <<>> /\ start = 0 /\ starts = <<>> /\ result = <<>>
    /\ opc = "idle"
    /\ fft_data = <<>> /\ data_compress = <<>> /\ positions = <<>>
    /\ index = 0 /\ log = <<>> /\ pc = "idle"
    /\ IdleCompress

Channel(c) ==
    /\ ~Ended(chan[c])
    /\ \E nxt \in {ChanStep(chan[c], rng)} :
           /\ chan' = [chan EXCEPT ![c] = nxt.chan]
           /\ rng' = nxt.rng
    /\ UNCHANGED <<sample_rate, seed, compressVars, fftVars, olaVars>>

Left == Channel("left")

Right == Channel("right")

NextMain == Left \/ Right

SpecMain == InitMain /\ [][NextMain]_vars

---------------------------------------------------------------------------
(* Claim on the channels (SpecMain). *)

\* the two calls run one after the other, left first, from the first state of
\* the generator
LeftAlone == RunToEnd(NewCall, seed)
RightAfterLeft == RunToEnd(NewCall, LeftAlone.rng)

\* C8: however the two calls are interleaved, what each channel draws and
\* writes is what it draws and writes when the channels run one after the
\* other.
C8_Independent ==
    (chan["left"].opc = "return" /\ chan["right"].opc = "return") =>
        /\ chan["left"] = LeftAlone.chan
        /\ chan["right"] = RightAfterLeft.chan

====
